---- MODULE Spec2Model ----
(***************************************************************************)
(* A model of kademlia.network.Server (src/kademlia/network.py): one node  *)
(* of the DHT, its local store, its routing table, the authorization       *)
(* oracle it consults, its timers, and the coroutines (set calls and the   *)
(* refresh/republish sweep) that interleave at their await points.         *)
(*                                                                         *)
(* The collaborators the server imports (kademlia.domain, .protocol,       *)
(* .crawling, .storage, .utils, .repository) are modelled from the         *)
(* natural-language specification; peers are an unreliable environment.    *)
(***************************************************************************)
EXTENDS Integers, Sequences, FiniteSets, TLC

\* ---------------------------------------------------------------- bounds
NPeers == 2        \* remote peers 1..NPeers (a peer's number is its node id)
MaxVal == 3        \* signed values 0..MaxVal
NKeys == 1         \* plain keys 0..NKeys-1
NCalls == 2        \* calls of Server.set made over a run
MaxOrphans == 1    \* timers pending beside the one the server's field holds
NSweeps == 2       \* tasks of Server._refresh_table alive at a time

\* ------------------------------------------------------ program constants
KSize == 20        \* Server.__init__ ksize
Alpha == 3         \* Server.__init__ alpha
LocalId == 0       \* self.node.id

Peers == 1..NPeers
Keys == 0..(NKeys - 1)
Values == 0..MaxVal
Calls == 1..NCalls
Sweeps == 1..NSweeps

\* ------------------------------------------------------ identity & metric
\* kademlia.utils.digest: a hash; injective and without fixed point on the
\* identifiers used here, so digest(digest(k)) differs from digest(k).
Digest(x) == (5 * x + 3) % 16

DKeys == {Digest(k) : k \in Keys}

RECURSIVE Xor(_, _)
Xor(a, b) ==
    IF a = 0 /\ b = 0 THEN 0
    ELSE (((a % 2) + (b % 2)) % 2) + 2 * Xor(a \div 2, b \div 2)

RECURSIVE SortByDist(_, _)
SortByDist(S, target) ==
    IF S = {} THEN <<>>
    ELSE LET m == CHOOSE x \in S : \A y \in S : Xor(x, target) <= Xor(y, target)
         IN <<m>> \o SortByDist(S \ {m}, target)

Take(s, n) == SubSeq(s, 1, IF n < Len(s) THEN n ELSE Len(s))

\* RoutingTable.findNeighbors(node, k): the k known peers nearest to the target.
findNeighbors(rt, target, k) == Take(SortByDist(rt, target), k)

Range(s) == {s[i] : i \in 1..Len(s)}

\* The (ip, port) at which peer p listens, and the peer listening there.
AddrOf(p) == <<"host", p>>
PeerAt(addr) == addr[2]
Addrs == {AddrOf(p) : p \in Peers}

\* ------------------------------------------------------------ value model
\* A Value is identified by its number: its signature verifies unless it is
\* value 0, and its signer (public key) is its parity.
is_valid(v) == v > 0
Owner(v) == v % 2
Sign(v) == v

\* A serialized store value: a JSON object (one Value) or a JSON list (a
\* ControlledValue). None is the absent payload.
None == [list |-> FALSE, vals |-> <<>>]
SingleStr(v) == [list |-> FALSE, vals |-> <<v>>]
ListStr(vs) == [list |-> TRUE, vals |-> vs]

\* str(Value) / str(ControlledValue)
ToStr(obj) ==
    IF obj.kind = "ControlledValue" THEN ListStr(obj.values)
    ELSE SingleStr(obj.values[1])

\* ValueFactory.create_from_string: dispatch on the shape of the stored form.
create_from_string(dkey, s) ==
    IF s.list THEN [kind |-> "ControlledValue", values |-> s.vals]
    ELSE [kind |-> "Value", values |-> <<s.vals[1]>>]

\* ValueFactory.create_from_value: the first writer's value.
create_from_value(v) == [kind |-> "Value", values |-> <<v>>]

\* ControlledValue.add_value: append, keeping what is there.
add_value(obj, v) == [kind |-> "ControlledValue", values |-> Append(obj.values, v)]

\* validate_secure_value(dkey, new, existing): the writer of a single value
\* must be the one who wrote the existing value.
validate_secure_value(dkey, new, existing) == Owner(new) = Owner(existing.values[1])

RECURSIVE CountOf(_, _)
CountOf(s, x) ==
    IF s = <<>> THEN 0
    ELSE (IF Head(s) = x THEN 1 ELSE 0) + CountOf(Tail(s), x)

\* select_most_common_response: the payload with the highest count among the
\* data-bearing responses, ties broken by first-seen order; None without data.
select_most_common_response(dkey, responses) ==
    IF responses = <<>> THEN None
    ELSE LET best == CHOOSE i \in 1..Len(responses) :
                 /\ \A j \in 1..Len(responses) :
                        CountOf(responses, responses[j]) <= CountOf(responses, responses[i])
                 /\ \A j \in 1..(i - 1) :
                        CountOf(responses, responses[j]) < CountOf(responses, responses[i])
         IN responses[best]

\* What peers other than this node hold and send: forms signed by the last value.
Foreign == MaxVal
ForeignStrs == {SingleStr(Foreign), ListStr(<<Foreign>>)}

\* The authorization record's id: digest256(dkey.hex() + signature).
DtlHash(dkey, v) == <<dkey, Sign(v)>>
AllHashes == {DtlHash(d, v) : d \in DKeys, v \in Values}

\* What the external ledger may hold when it is asked about (dkey, v): the
\* ledger changes on its own, so each query sees a content of its own.
Ledgers(dkey, v) ==
    {AllHashes \ {DtlHash(dkey, v)}, AllHashes}

\* A lookup that finds a record whenever the ledger holds any.
get_dtl_record_any(dkey, v, ledger) == ledger # {}

\* Server._get_dtl_record: the record under the id of (dkey, signature), if any.
get_dtl_record(dkey, v, ledger) == DtlHash(dkey, v) \in ledger

\* ------------------------------------------------------------------ state
VARIABLES
    transport,        \* self.transport: "none", "open" or "closed"
    router,           \* self.protocol.router: the peers known
    storage,          \* self.storage: dkey -> [data, old]
    refresh_loop,     \* self.refresh_loop: "none", "pending", "cancelled"
    save_state_loop,  \* self.save_state_loop: "none", "pending", "cancelled"
    orphans,          \* pending snapshot timers save_state_loop no longer holds
    snapfile,         \* the snapshot file
    calls,            \* the coroutines of Server.set
    sweep,            \* the coroutines of Server._refresh_table, by task
    stopCalled,       \* history: stop() has been called
    postStop,         \* history: the RPC kinds sent after stop()
    firedAfterStop,   \* history: a timer callback ran after stop()
    getc,             \* the coroutine of a Server.get called from outside
    boot,             \* the coroutine of Server.bootstrap
    restored,         \* the server Server.loadState returned
    saved,            \* history: data['neighbors'] (line 262) of the last saveState
    refresh_orphans   \* pending refresh timers refresh_loop no longer holds

vars == <<transport, router, storage, refresh_loop, save_state_loop,
          orphans, snapfile, calls, sweep, stopCalled, postStop,
          firedAfterStop, getc, boot, restored, saved, refresh_orphans>>

NoEntry == [data |-> None, old |-> FALSE]

\* A spider crawl (NodeSpiderCrawl or ValueSpiderCrawl) that was not started,
\* or that returned to a caller who keeps nothing of it.
NoSpider ==
    [kind |-> "none", target |-> 0, known |-> {}, seen |-> {}, contacted |-> {},
     inflight |-> {}, responses |-> <<>>]

IdleCall ==
    [pc |-> "idle", key |-> 0, val |-> 0, local |-> None, resp |-> None,
     sp |-> NoSpider, nodes |-> <<>>, out |-> "none",
     \* history of the call
     after |-> {}, preList |-> FALSE, lookups |-> FALSE, oq |-> 0,
     seen1 |-> "na", seen2 |-> "na", wrote |-> FALSE, target |-> 0,
     acked |-> FALSE]

IdleSweep ==
    [pc |-> "idle", queue |-> <<>>, cur |-> <<0, None>>, target |-> 0,
     cos |-> <<>>, ds |-> <<>>, sp |-> NoSpider, nodes |-> <<>>,
     \* history of the sweep: the store as line 105 iterated it, the calls of
     \* _call_remote_persist made so far, and whether the sweep is through
     snap |-> [d \in DKeys |-> NoEntry], made |-> <<>>, swept |-> FALSE]

NoFile == [written |-> FALSE, ksize |-> 0, alpha |-> 0, id |-> 0, neighbors |-> <<>>]

\* NodeMessage.of_params(dkey, data): the envelope get returns.
of_params(dkey, data) == [key |-> dkey, data |-> data]

IdleGet ==
    [pc |-> "idle", key |-> 0, local |-> None, sp |-> NoSpider,
     out |-> of_params(0, None), sent |-> FALSE]

IdleBoot ==
    [pc |-> "idle", addrs |-> <<>>, pinged |-> {}, answered |-> {},
     nodes |-> <<>>, sp |-> NoSpider, out |-> <<>>]

\* No server has been restored from the snapshot file.
NoServer ==
    [made |-> FALSE, ksize |-> 0, alpha |-> 0, id |-> 0, neighbors |-> <<>>,
     bootstrap |-> "none", pinged |-> {}]

NeverSaved == <<"never">>

\* Server.__init__: a storage may be handed in, empty or holding entries.
Init ==
    /\ transport = "none"
    /\ router = {}
    /\ storage \in [DKeys -> {NoEntry} \cup {[data |-> s, old |-> FALSE] : s \in ForeignStrs}]
    /\ refresh_loop = "none"
    /\ save_state_loop = "none"
    /\ orphans = 0
    /\ snapfile = NoFile
    /\ calls = [t \in Calls |-> IdleCall]
    /\ sweep = [s \in Sweeps |-> IdleSweep]
    /\ stopCalled = FALSE
    /\ postStop = {}
    /\ firedAfterStop = FALSE
    /\ getc = IdleGet
    /\ boot = IdleBoot
    /\ restored = NoServer
    /\ saved = NeverSaved
    /\ refresh_orphans = 0

\* An RPC of the given kinds leaves the node; remembered when stop() came before.
Sent(kinds) == IF stopCalled THEN postStop \cup kinds ELSE postStop

\* KademliaProtocol.handleCallResponse: a peer that answered is (re)inserted,
\* one that was asked and did not answer is removed.
RouterAfter(rt, asked, answered) == (rt \ (asked \ answered)) \cup answered


\* ------------------------------------------------ the crawl engine (spider)
\* Config.VALUES_TO_WAIT: the data-bearing responses that end a value crawl.
ValuesToWait == 20

\* Some peer of S is closer to the target than every peer of T.
Closer(S, T, target) ==
    \E x \in S : \A y \in T : Xor(x, target) < Xor(y, target)

\* SpiderCrawl(protocol, node, peers, ksize, alpha): the frontier starts as
\* the peers given; a value crawl may be given answers to start from.
SpiderInit(kind, target, peers, seed) ==
    [kind |-> kind, target |-> target, known |-> peers, seen |-> peers,
     contacted |-> {}, inflight |-> {}, responses |-> seed]

\* The peers one round asks: up to alpha of the nearest not yet queried.
SpiderPicks(sp) ==
    Range(Take(SortByDist(sp.known \ sp.contacted, sp.target), Alpha))

\* A round begins: its peers are asked, and count as queried from now on.
SpiderAsk(sp) ==
    [sp EXCEPT !.inflight = SpiderPicks(sp),
               !.contacted = @ \cup SpiderPicks(sp)]

\* A round ends: the peers A answered, the others timed out and leave the
\* frontier; `found` are the peers the answers name, `data` the payloads.
SpiderMerge(sp, A, found, data) ==
    [sp EXCEPT !.known = (@ \ (sp.inflight \ A)) \cup found,
               !.seen = @ \cup found,
               !.inflight = {},
               !.responses = @ \o data]

\* A crawl that no round ends.
SpiderStopsNever(sp, found, responses) == FALSE

\* The crawl ends with the round that names no peer closer than the best one
\* known before it; a value crawl also once enough answers carry data.
SpiderStops(sp, found, responses) ==
    \/ ~Closer(found, sp.seen, sp.target)
    \/ sp.kind = "value" /\ Len(responses) >= ValuesToWait

\* What a node crawl returns: the k closest peers known and not timed out.
SpiderResult(sp) == Take(SortByDist(sp.known, sp.target), KSize)

\* What a round of a value crawl adds to its answers: the payloads of the
\* peers that answered with data, nearest first.
Responses(local, dkey, R, ans) ==
    LET order == SortByDist(R, dkey)
        got == [i \in 1..Len(order) |-> ans[order[i]]]
    IN (IF local # None THEN <<local>> ELSE <<>>)
       \o SelectSeq(got, LAMBDA x : x # None)

\* A crawl as its caller starts it: the first round is asked at once.
SpiderFind(kind, target, peers, seed) ==
    SpiderAsk(SpiderInit(kind, target, peers, seed))

\* ------------------------------------ get as set and the outside call it
\* A get that hands the crawl nothing to start from.
SeedNothing(local_value) == <<>>

\* get, lines 169-175: a local copy, when there is one, is handed to the
\* value crawl as the answers it starts from.
SeedResponses(local_value) ==
    IF local_value # None THEN <<local_value>> ELSE <<>>

\* A get that returns the first answer of the list.
GetResultFirst(dkey, responses) ==
    of_params(dkey, IF responses = <<>> THEN None ELSE responses[1])

\* get, lines 177-179: the answers are resolved and the result is wrapped.
GetResult(dkey, responses) ==
    of_params(dkey, select_most_common_response(dkey, responses))


\* ------------------------------------------------------------- Server.set
\* A set that never looks at the value's own signature.
SetRejectsNever(v) == FALSE

\* set, lines 189-190: a value whose own signature does not verify is refused.
SetRejects(v) == ~is_valid(v)

\* A merge that skips validate_secure_value.
MergeRaisesNever(dkey, v, resp) == FALSE

\* _persist_locally, lines 208-213: the single-writer conflict raises.
MergeRaises(dkey, v, resp) ==
    /\ resp # None
    /\ create_from_string(dkey, resp).kind # "ControlledValue"
    /\ ~validate_secure_value(dkey, v, create_from_string(dkey, resp))

\* _persist_locally, lines 208-216: the value to store.
Merge(dkey, v, resp) ==
    IF resp # None
    THEN LET stored_value == create_from_string(dkey, resp)
         IN IF stored_value.kind = "ControlledValue"
            THEN add_value(stored_value, v)
            ELSE [kind |-> "Value", values |-> <<v>>]
    ELSE create_from_value(v)

\* A _persist_locally without its second look at the ledger.
SecondCheckSkipped(dkey, v, ledger) == TRUE

\* _persist_locally, lines 218-219: the second look at the ledger.
SecondCheck(dkey, v, ledger) == get_dtl_record(dkey, v, ledger)

Seen(b) == IF b THEN "present" ELSE "absent"

\* _persist_locally from line 205 on, once get has returned `resp`; led1 and
\* led2 are the ledger at the first and at the second query. The result says
\* what the call becomes and whether (and what) it writes to the store.
PersistLocally(c, resp, led1, led2) ==
    LET dkey == Digest(c.key)
        s1 == Seen(DtlHash(dkey, c.val) \in led1)
        s2 == Seen(DtlHash(dkey, c.val) \in led2)
        c1 == [c EXCEPT !.resp = resp, !.local = None, !.sp = NoSpider, !.oq = 1,
                        !.seen1 = s1]
        c2 == [c1 EXCEPT !.oq = 2, !.seen2 = s2]
        Raised(cc) == [call |-> [cc EXCEPT !.pc = "done", !.out = "unauth"],
                       write |-> FALSE, data |-> None]
    IN IF ~get_dtl_record(dkey, c.val, led1) THEN Raised(c1)
       ELSE IF MergeRaises(dkey, c.val, resp) THEN Raised(c1)
       ELSE IF ~SecondCheck(dkey, c.val, led2) THEN Raised(c2)
       ELSE [call |-> [c2 EXCEPT !.wrote = TRUE],
             write |-> TRUE,
             data |-> ToStr(Merge(dkey, c.val, resp))]

\* A _call_remote_persist that starts its crawl with or without neighbors.
RemotePersistAlways(key, rt) ==
    [target |-> Digest(key),
     near |-> Range(findNeighbors(rt, Digest(key), KSize)),
     suspend |-> TRUE]

\* _call_remote_persist, lines 234-245, up to its first await: the key it is
\* given is digested, and the crawl toward that digest starts from the
\* neighbors known, if any.
RemotePersistBegin(key, rt) ==
    LET dkey == Digest(key)
        nearest == findNeighbors(rt, dkey, KSize)
    IN [target |-> dkey, near |-> Range(nearest), suspend |-> Len(nearest) # 0]

\* An outcome that wants every callStore to succeed.
AllStored(nodes, acks) == \A n \in nodes : n \in acks

\* _call_remote_persist, line 250: the outcome over the callStore results.
AnyStored(nodes, acks) == \E n \in nodes : n \in acks

\* A set that undoes its local write when no peer accepted the value.
StorageRolledBack(st, dkey, ok) ==
    IF ok THEN st ELSE [st EXCEPT ![dkey] = [data |-> None, old |-> FALSE]]

\* set, lines 191-192: nothing is done to the store once _persist_locally has
\* written it, whatever _call_remote_persist returns.
StorageAfterPersist(st, dkey, ok) == st

\* The rest of set once get has returned: _persist_locally's checks and write,
\* then _call_remote_persist up to its first await. rt is the routing table now.
AfterGet(t, c, resp, led1, led2, rt) ==
    LET p == PersistLocally(c, resp, led1, led2)
        dkey == Digest(c.key)
        b == RemotePersistBegin(c.key, rt)
    IN /\ storage' = IF p.write
                     THEN [storage EXCEPT ![dkey] = [data |-> p.data, old |-> FALSE]]
                     ELSE storage
       /\ IF ~p.write
          THEN /\ calls' = [calls EXCEPT ![t] = p.call]
               /\ postStop' = postStop
          ELSE IF ~b.suspend
               THEN /\ calls' = [calls EXCEPT ![t] = [p.call EXCEPT !.pc = "done",
                                                       !.out = "false",
                                                       !.target = b.target]]
                    /\ postStop' = postStop
               ELSE /\ calls' = [calls EXCEPT ![t] = [p.call EXCEPT !.pc = "crawlwait",
                                                       !.target = b.target,
                                                       !.sp = SpiderFind("node", b.target,
                                                                         b.near, <<>>),
                                                       !.lookups = TRUE]]
                    /\ postStop' = Sent({"find_node"})

\* Server.set is called (lines 181-192), and runs up to its first await: the
\* validity check, then get (lines 158-175), which returns at once without
\* neighbors and otherwise reads the local copy and starts the value crawl.
SetCall(t, k, v) ==
    /\ transport = "open"
    /\ ~stopCalled
    /\ calls[t].pc = "idle"
    /\ \A u \in 1..(t - 1) : calls[u].pc # "idle"
    /\ LET dkey == Digest(k)
           c == [calls[t] EXCEPT !.key = k, !.val = v,
                                 !.preList = storage[dkey].data.list,
                                 !.after = {u \in Calls : calls[u].pc = "done"}]
           nearest == findNeighbors(router, dkey, KSize)
       IN IF SetRejects(v)
          THEN /\ calls' = [calls EXCEPT ![t] = [c EXCEPT !.pc = "done", !.out = "unauth"]]
               /\ UNCHANGED <<storage, postStop>>
          ELSE IF Len(nearest) = 0
          THEN \E led1 \in Ledgers(dkey, v), led2 \in Ledgers(dkey, v) :
                   AfterGet(t, c, None, led1, led2, router)
          ELSE /\ calls' = [calls EXCEPT ![t] = [c EXCEPT !.pc = "getwait",
                                                  !.local = storage[dkey].data,
                                                  !.sp = SpiderFind("value", dkey,
                                                             Range(nearest),
                                                             SeedResponses(storage[dkey].data)),
                                                  !.lookups = TRUE]]
               /\ postStop' = Sent({"find_value"})
               /\ UNCHANGED storage
    /\ UNCHANGED <<getc, boot, restored, refresh_orphans, saved,
                   transport, router, refresh_loop, save_state_loop, orphans,
                   snapfile, sweep, stopCalled, firedAfterStop>>

\* A round of the value crawl of set's get ends (line 203, lines 173-175):
\* each peer asked answered, with data or with peers, or timed out. The crawl
\* asks again, or it returns: get then resolves the answers (lines 177-179)
\* and set goes on through _persist_locally to _call_remote_persist's await.
GetFinish(t) ==
    /\ calls[t].pc = "getwait"
    /\ LET c == calls[t]
           sp == c.sp
           dkey == Digest(c.key)
       IN \E A \in SUBSET sp.inflight :
          \E ans \in [A -> {None} \cup ForeignStrs] :
          \E found \in SUBSET (Peers \ A) :
              /\ (\A p \in A : ans[p] # None) => found = {}
              /\ router' = RouterAfter(router, sp.inflight, A) \cup found
              /\ LET m == SpiderMerge(sp, A, found,
                                      Responses(None, sp.target, A, ans))
                 IN IF SpiderStops(sp, found, m.responses)
                    THEN \E led1 \in Ledgers(dkey, c.val),
                            led2 \in Ledgers(dkey, c.val) :
                             AfterGet(t, c, GetResult(dkey, m.responses).data,
                                      led1, led2, router')
                    ELSE /\ calls' = [calls EXCEPT ![t].sp = SpiderAsk(m)]
                         /\ postStop' = Sent({"find_value"})
                         /\ storage' = storage
    /\ UNCHANGED <<getc, boot, restored, refresh_orphans, saved,
                   transport, refresh_loop, save_state_loop, orphans, snapfile,
                   sweep, stopCalled, firedAfterStop>>

\* A round of the node crawl of _call_remote_persist ends (line 245). The
\* crawl asks again, or it returns the nodes found: line 248 makes a callStore
\* coroutine for every one of them and line 250 hands them to gather and
\* waits, none of them having run yet; without any node gather has nothing to
\* wait for and the call returns False.
CrawlFinish(t) ==
    /\ calls[t].pc = "crawlwait"
    /\ LET c == calls[t]
           sp == c.sp
       IN \E A \in SUBSET sp.inflight :
          \E found \in SUBSET (Peers \ A) :
              /\ A = {} => found = {}
              /\ router' = RouterAfter(router, sp.inflight, A) \cup found
              /\ LET m == SpiderMerge(sp, A, found, <<>>)
                     nodes == SpiderResult(m)
                 IN IF ~SpiderStops(sp, found, m.responses)
                    THEN /\ calls' = [calls EXCEPT ![t].sp = SpiderAsk(m)]
                         /\ postStop' = Sent({"find_node"})
                    ELSE IF nodes = <<>>
                    THEN /\ calls' = [calls EXCEPT ![t] = [c EXCEPT !.pc = "done",
                                                            !.sp = NoSpider,
                                                            !.out = "false"]]
                         /\ postStop' = postStop
                    ELSE /\ calls' = [calls EXCEPT ![t] = [c EXCEPT !.pc = "storecall",
                                                            !.sp = NoSpider,
                                                            !.nodes = nodes]]
                         /\ postStop' = postStop
    /\ UNCHANGED <<getc, boot, restored, refresh_orphans, saved,
                   transport, storage, refresh_loop, save_state_loop, orphans,
                   snapfile, sweep, stopCalled, firedAfterStop>>

\* The tasks gather made of the callStore coroutines start (line 250): each
\* sends its store RPC and waits for the answer.
StoreStart(t) ==
    /\ calls[t].pc = "storecall"
    /\ calls' = [calls EXCEPT ![t].pc = "storewait"]
    /\ postStop' = Sent({"store"})
    /\ UNCHANGED <<getc, boot, restored, refresh_orphans, saved,
                   transport, router, storage, refresh_loop, save_state_loop,
                   orphans, snapfile, sweep, stopCalled, firedAfterStop>>

\* The callStore batch of set returns (line 250): set returns whether any peer
\* accepted the value.
StoreFinish(t) ==
    /\ calls[t].pc = "storewait"
    /\ LET c == calls[t]
       IN \E A \in SUBSET Range(c.nodes) :
              /\ router' = RouterAfter(router, Range(c.nodes), A)
              /\ calls' = [calls EXCEPT ![t] =
                     [c EXCEPT !.pc = "done", !.acked = (A # {}),
                               !.out = IF AnyStored(Range(c.nodes), A)
                                       THEN "true" ELSE "false"]]
              /\ storage' = StorageAfterPersist(storage, Digest(c.key),
                                                AnyStored(Range(c.nodes), A))
    /\ UNCHANGED <<getc, boot, restored, refresh_orphans, saved,
                   transport, refresh_loop, save_state_loop, orphans, snapfile,
                   sweep, stopCalled, postStop, firedAfterStop>>


\* ------------------------------------------- Server._refresh_table (sweep)
\* Lines 106-111: a stored JSON list is republished element by element, any
\* other stored value as it is.
\* A sweep that republishes a stored list as it is.
ExpandWhole(dkey, value) == << <<dkey, value>> >>

Expand(dkey, value) ==
    IF value.list
    THEN [i \in 1..Len(value.vals) |-> <<dkey, SingleStr(value.vals[i])>>]
    ELSE << <<dkey, value>> >>

\* Lines 105-114: the calls of _call_remote_persist the sweep is going to
\* make, over storage.iteritemsOlderThan(3600), in the store's order.
RECURSIVE RepublishQueue(_, _)
RepublishQueue(st, D) ==
    IF D = {} THEN <<>>
    ELSE LET d == CHOOSE x \in D : \A y \in D : x <= y
         IN (IF st[d].data # None /\ st[d].old THEN Expand(d, st[d].data) ELSE <<>>)
            \o RepublishQueue(st, D \ {d})

\* Lines 113-114 up to the next await: _call_remote_persist is called with
\* the stored digest as its key for each value in turn; a call that finds no
\* neighbor returns at once and the loop goes on.
RECURSIVE SweepNext(_, _, _)
SweepNext(sw, queue, rt) ==
    IF queue = <<>>
    THEN [IdleSweep EXCEPT !.snap = sw.snap, !.made = sw.made, !.swept = TRUE]
    ELSE LET b == RemotePersistBegin(Head(queue)[1], rt)
             called == [sw EXCEPT !.made = Append(@, Head(queue))]
         IN IF ~b.suspend THEN SweepNext(called, Tail(queue), rt)
            ELSE [called EXCEPT !.pc = "crawl", !.queue = Tail(queue),
                                !.cur = Head(queue), !.target = b.target,
                                !.sp = SpiderFind("node", b.target, b.near, <<>>),
                                !.nodes = <<>>]

\* Line 105: the republishing loop starts over the store as it is now.
Republish(sw, st, rt) ==
    SweepNext([sw EXCEPT !.snap = st], RepublishQueue(st, DKeys), rt)

SweepSends(sw) == IF sw.pc = "crawl" THEN {"find_node"} ELSE {}

\* Server.refresh_table, lines 82-86: a task of _refresh_table is started and
\* a timer armed, which refresh_loop holds from now on.
RefreshTable ==
    /\ \E s \in Sweeps :
         /\ sweep[s].pc = "idle"
         /\ \A u \in 1..(s - 1) : sweep[u].pc # "idle"
         /\ sweep' = [sweep EXCEPT ![s] = [IdleSweep EXCEPT !.pc = "spawned"]]
    /\ refresh_loop' = "pending"

\* What getRefreshIDs may return: an id for each stale bucket, or, in a table
\* of fewer than ksize peers, which is one bucket, one id at most.
RefreshIds == SUBSET Peers
OneBucketIds == {ids \in RefreshIds : Cardinality(ids) <= 1}

\* _refresh_table starts (lines 93-102): for each stale bucket, ids being what
\* getRefreshIDs returns, the alpha neighbors of its id are read (line 98) and
\* the coroutine of a node crawl from them is made (line 99), which has not
\* run yet. With a coroutine to gather, line 102 hands control back to the
\* event loop; with none, the task goes straight on to republishing.
SweepStart(s, ids) ==
    /\ sweep[s].pc = "spawned"
    /\ LET order == SortByDist(ids, 0)
           cos == [i \in 1..Len(order) |->
                      SpiderInit("node", order[i],
                                 Range(findNeighbors(router, order[i], Alpha)), <<>>)]
       IN IF ids # {}
          THEN /\ sweep' = [sweep EXCEPT ![s].pc = "gather", ![s].cos = cos,
                                         ![s].ds = [i \in 1..Len(order) |-> NoSpider]]
               /\ postStop' = postStop
          ELSE /\ sweep' = [sweep EXCEPT ![s] = Republish(@, storage, router)]
               /\ postStop' = Sent(SweepSends(sweep'[s]))
    /\ UNCHANGED <<getc, boot, restored, refresh_orphans, saved,
                   transport, router, storage, refresh_loop, save_state_loop,
                   orphans, snapfile, calls, stopCalled, firedAfterStop>>

\* The tasks gather made of the crawl coroutines start (line 102): each crawl
\* asks its first round from the neighbors read at line 98; a crawl with
\* nobody to ask returns at once.
SweepCrawlsStart(s) ==
    /\ sweep[s].pc = "gather"
    /\ sweep[s].cos # <<>>
    /\ LET cos == sweep[s].cos
           ds == [i \in 1..Len(cos) |->
                     IF SpiderPicks(cos[i]) = {} THEN NoSpider
                     ELSE SpiderAsk(cos[i])]
       IN /\ sweep' = [sweep EXCEPT ![s].cos = <<>>, ![s].ds = ds]
          /\ postStop' = Sent(IF \E i \in 1..Len(ds) : ds[i].inflight # {}
                              THEN {"find_node"} ELSE {})
    /\ UNCHANGED <<getc, boot, restored, refresh_orphans, saved,
                   transport, router, storage, refresh_loop, save_state_loop,
                   orphans, snapfile, calls, stopCalled, firedAfterStop>>

\* A round of one of the bucket crawls gathered at line 102 ends. The crawl
\* asks again or returns; nothing is kept of what it returns.
SweepBucketReplies(s, i) ==
    /\ sweep[s].pc = "gather"
    /\ i \in 1..Len(sweep[s].ds)
    /\ sweep[s].ds[i].inflight # {}
    /\ LET sp == sweep[s].ds[i]
       IN \E A \in SUBSET sp.inflight :
          \E found \in SUBSET (Peers \ A) :
              /\ A = {} => found = {}
              /\ router' = RouterAfter(router, sp.inflight, A) \cup found
              /\ LET m == SpiderMerge(sp, A, found, <<>>)
                 IN IF SpiderStops(sp, found, m.responses)
                    THEN /\ sweep' = [sweep EXCEPT ![s].ds[i] = NoSpider]
                         /\ postStop' = postStop
                    ELSE /\ sweep' = [sweep EXCEPT ![s].ds[i] = SpiderAsk(m)]
                         /\ postStop' = Sent({"find_node"})
    /\ UNCHANGED <<getc, boot, restored, refresh_orphans, saved,
                   transport, storage, refresh_loop, save_state_loop, orphans,
                   snapfile, calls, stopCalled, firedAfterStop>>

\* Every bucket crawl has returned (line 102); republishing begins (line 105).
SweepGathered(s) ==
    /\ sweep[s].pc = "gather"
    /\ sweep[s].cos = <<>>
    /\ \A i \in 1..Len(sweep[s].ds) : sweep[s].ds[i].inflight = {}
    /\ sweep' = [sweep EXCEPT ![s] = Republish([@ EXCEPT !.ds = <<>>], storage, router)]
    /\ postStop' = Sent(SweepSends(sweep'[s]))
    /\ UNCHANGED <<getc, boot, restored, refresh_orphans, saved,
                   transport, router, storage, refresh_loop, save_state_loop,
                   orphans, snapfile, calls, stopCalled, firedAfterStop>>

\* A round of the node crawl of a republishing _call_remote_persist ends
\* (line 245). The crawl asks again, or it returns the nodes found: line 248
\* makes a callStore coroutine for every one of them and line 250 hands them
\* to gather and waits; without any, the loop goes on.
SweepCrawlFinish(s) ==
    /\ sweep[s].pc = "crawl"
    /\ LET sp == sweep[s].sp
       IN \E A \in SUBSET sp.inflight :
          \E found \in SUBSET (Peers \ A) :
              /\ A = {} => found = {}
              /\ router' = RouterAfter(router, sp.inflight, A) \cup found
              /\ LET m == SpiderMerge(sp, A, found, <<>>)
                     nodes == SpiderResult(m)
                 IN IF ~SpiderStops(sp, found, m.responses)
                    THEN /\ sweep' = [sweep EXCEPT ![s].sp = SpiderAsk(m)]
                         /\ postStop' = Sent({"find_node"})
                    ELSE IF nodes = <<>>
                    THEN /\ sweep' = [sweep EXCEPT ![s] =
                                 SweepNext([@ EXCEPT !.sp = NoSpider], @.queue, router')]
                         /\ postStop' = Sent(SweepSends(sweep'[s]))
                    ELSE /\ sweep' = [sweep EXCEPT ![s].pc = "storecall",
                                                   ![s].sp = NoSpider,
                                                   ![s].nodes = nodes]
                         /\ postStop' = postStop
    /\ UNCHANGED <<getc, boot, restored, refresh_orphans, saved,
                   transport, storage, refresh_loop, save_state_loop, orphans,
                   snapfile, calls, stopCalled, firedAfterStop>>

\* The tasks gather made of the callStore coroutines start (line 250): each
\* sends its store RPC, which carries the digest computed at line 234.
SweepStoreStart(s) ==
    /\ sweep[s].pc = "storecall"
    /\ sweep' = [sweep EXCEPT ![s].pc = "store"]
    /\ postStop' = Sent({"store"})
    /\ UNCHANGED <<getc, boot, restored, refresh_orphans, saved,
                   transport, router, storage, refresh_loop, save_state_loop,
                   orphans, snapfile, calls, stopCalled, firedAfterStop>>

\* The callStore batch of a republishing call returns; the loop goes on.
SweepStoreFinish(s) ==
    /\ sweep[s].pc = "store"
    /\ \E A \in SUBSET Range(sweep[s].nodes) :
         /\ router' = RouterAfter(router, Range(sweep[s].nodes), A)
         /\ sweep' = [sweep EXCEPT ![s] = SweepNext(@, @.queue, router')]
         /\ postStop' = Sent(SweepSends(sweep'[s]))
    /\ UNCHANGED <<getc, boot, restored, refresh_orphans, saved,
                   transport, storage, refresh_loop, save_state_loop, orphans,
                   snapfile, calls, stopCalled, firedAfterStop>>

\* ------------------------------------------------ listen, timers and stop
\* Server.listen, lines 67-80: the endpoint and a fresh protocol (and routing
\* table) are made, and refresh_table is called.
Listen ==
    /\ transport = "none"
    /\ ~stopCalled
    /\ transport' = "open"
    /\ router' = {}
    /\ RefreshTable
    /\ UNCHANGED <<getc, boot, restored, refresh_orphans, saved,
                   storage, save_state_loop, orphans, snapfile, calls,
                   stopCalled, postStop, firedAfterStop>>

\* The timer refresh_loop holds fires: refresh_table runs again, beside any
\* task of _refresh_table that is still waiting.
RefreshTimerFire ==
    /\ refresh_loop = "pending"
    /\ RefreshTable
    /\ firedAfterStop' = (firedAfterStop \/ stopCalled)
    /\ UNCHANGED <<getc, boot, restored, refresh_orphans, saved,
                   transport, router, storage, save_state_loop, orphans,
                   snapfile, calls, stopCalled, postStop>>

\* Server.refresh_table is called from outside, lines 82-86: the timer it arms
\* takes refresh_loop, whose previous timer, when still pending, is held by
\* nothing from now on.
RefreshTableCall ==
    /\ transport # "none"
    /\ ~stopCalled
    /\ refresh_loop = "pending" => refresh_orphans < MaxOrphans
    /\ RefreshTable
    /\ refresh_orphans' =
           IF refresh_loop = "pending" THEN refresh_orphans + 1 ELSE refresh_orphans
    /\ UNCHANGED <<getc, boot, restored, saved,
                   transport, router, storage, save_state_loop, orphans,
                   snapfile, calls, stopCalled, postStop, firedAfterStop>>

\* A timer refresh_loop no longer holds fires: refresh_table runs, and the
\* timer it arms takes refresh_loop.
RefreshOrphanFire ==
    /\ refresh_orphans > 0
    /\ RefreshTable
    /\ refresh_orphans' =
           IF refresh_loop = "pending" THEN refresh_orphans ELSE refresh_orphans - 1
    /\ firedAfterStop' = (firedAfterStop \/ stopCalled)
    /\ UNCHANGED <<getc, boot, restored, saved,
                   transport, router, storage, save_state_loop, orphans,
                   snapfile, calls, stopCalled, postStop>>

\* Server.bootstrappableNeighbors, lines 126-127: the (ip, port) of the
\* neighbors of the local node.
bootstrappableNeighbors(rt) ==
    LET neighbors == findNeighbors(rt, LocalId, KSize)
    IN [i \in 1..Len(neighbors) |-> AddrOf(neighbors[i])]

\* A saveState that writes whatever the neighbors are.
saveStateAlways(file, rt) ==
    [written |-> TRUE, ksize |-> KSize, alpha |-> Alpha, id |-> LocalId,
     neighbors |-> bootstrappableNeighbors(rt)]

\* Server.saveState, lines 252-268: nothing is written without neighbors.
saveState(file, rt) ==
    IF Len(bootstrappableNeighbors(rt)) = 0 THEN file
    ELSE [written |-> TRUE, ksize |-> KSize, alpha |-> Alpha, id |-> LocalId,
          neighbors |-> bootstrappableNeighbors(rt)]

\* Server.saveState is called from outside, lines 252-268: no timer is armed.
SaveState ==
    /\ transport # "none"
    /\ snapfile' = saveState(snapfile, router)
    /\ saved' = bootstrappableNeighbors(router)
    /\ UNCHANGED <<getc, boot, restored, refresh_orphans,
                   transport, router, storage, refresh_loop, save_state_loop,
                   orphans, calls, sweep, stopCalled, postStop, firedAfterStop>>

\* Server.saveStateRegularly is called, lines 284-299: the state is saved and
\* a timer is armed; save_state_loop holds the newest timer only.
SaveStateRegularly ==
    /\ transport # "none"
    /\ ~stopCalled
    /\ save_state_loop = "pending" => orphans < MaxOrphans
    /\ snapfile' = saveState(snapfile, router)
    /\ orphans' = IF save_state_loop = "pending" THEN orphans + 1 ELSE orphans
    /\ save_state_loop' = "pending"
    /\ saved' = bootstrappableNeighbors(router)
    /\ UNCHANGED <<getc, boot, restored, refresh_orphans,
                   transport, router, storage, refresh_loop, calls, sweep,
                   stopCalled, postStop, firedAfterStop>>

\* The timer save_state_loop holds fires: saveStateRegularly runs again.
SaveTimerFire ==
    /\ save_state_loop = "pending"
    /\ snapfile' = saveState(snapfile, router)
    /\ firedAfterStop' = (firedAfterStop \/ stopCalled)
    /\ saved' = bootstrappableNeighbors(router)
    /\ UNCHANGED <<getc, boot, restored, refresh_orphans,
                   transport, router, storage, refresh_loop, save_state_loop,
                   orphans, calls, sweep, stopCalled, postStop>>

\* A timer save_state_loop no longer holds fires: saveStateRegularly runs,
\* and the timer it arms takes save_state_loop, whose previous timer, when
\* still pending, is held by nothing from now on.
SaveOrphanFire ==
    /\ orphans > 0
    /\ snapfile' = saveState(snapfile, router)
    /\ orphans' = IF save_state_loop = "pending" THEN orphans ELSE orphans - 1
    /\ save_state_loop' = "pending"
    /\ firedAfterStop' = (firedAfterStop \/ stopCalled)
    /\ saved' = bootstrappableNeighbors(router)
    /\ UNCHANGED <<getc, boot, restored, refresh_orphans,
                   transport, router, storage, refresh_loop, calls, sweep,
                   stopCalled, postStop>>

Cancel(handle) == IF handle = "pending" THEN "cancelled" ELSE handle

\* Server.stop, lines 54-62.
Stop ==
    /\ transport' = IF transport # "none" THEN "closed" ELSE transport
    /\ refresh_loop' = Cancel(refresh_loop)
    /\ save_state_loop' = Cancel(save_state_loop)
    /\ stopCalled' = TRUE
    /\ UNCHANGED <<getc, boot, restored, refresh_orphans, saved,
                   router, storage, orphans, snapfile, calls, sweep, postStop,
                   firedAfterStop>>

\* ------------------------------------------------------------ environment
\* A peer's ping arrives: the protocol inserts the sender into the table.
RpcPing(p) ==
    /\ transport = "open"
    /\ p \notin router
    /\ router' = router \cup {p}
    /\ UNCHANGED <<getc, boot, restored, refresh_orphans, saved,
                   transport, storage, refresh_loop, save_state_loop, orphans,
                   snapfile, calls, sweep, stopCalled, postStop, firedAfterStop>>

\* A peer's store request arrives: it is accepted into the local store.
RpcStore(p, dkey, s) ==
    /\ transport = "open"
    /\ router' = router \cup {p}
    /\ storage' = [storage EXCEPT ![dkey] = [data |-> s, old |-> FALSE]]
    /\ UNCHANGED <<getc, boot, restored, refresh_orphans, saved,
                   transport, refresh_loop, save_state_loop, orphans, snapfile,
                   calls, sweep, stopCalled, postStop, firedAfterStop>>

\* An hour goes by since an entry was written.
AgeEntry(dkey) ==
    /\ storage[dkey].data # None
    /\ ~storage[dkey].old
    /\ storage' = [storage EXCEPT ![dkey].old = TRUE]
    /\ UNCHANGED <<getc, boot, restored, refresh_orphans, saved,
                   transport, router, refresh_loop, save_state_loop, orphans,
                   snapfile, calls, sweep, stopCalled, postStop, firedAfterStop>>

\* ------------------------------------------------------------- Server.get
\* Server.get is called from outside (lines 150-175) and runs up to its first
\* await: without neighbors it returns an absent payload at once.
Get(k) ==
    /\ transport = "open"
    /\ ~stopCalled
    /\ getc.pc = "idle"
    /\ LET dkey == Digest(k)
           nearest == findNeighbors(router, dkey, KSize)
           local_value == storage[dkey].data
       IN IF Len(nearest) = 0
          THEN /\ getc' = [getc EXCEPT !.pc = "done", !.key = k,
                                       !.out = of_params(dkey, None)]
               /\ postStop' = postStop
          ELSE /\ getc' = [getc EXCEPT
                              !.pc = "wait", !.key = k, !.local = local_value,
                              !.sent = TRUE,
                              !.sp = SpiderAsk(SpiderInit("value", dkey, Range(nearest),
                                                          SeedResponses(local_value)))]
               /\ postStop' = Sent({"find_value"})
    /\ UNCHANGED <<transport, router, storage, refresh_loop, save_state_loop,
                   orphans, snapfile, calls, sweep, stopCalled, firedAfterStop,
                   boot, restored, refresh_orphans, saved>>

\* A round of get's value crawl ends: each peer asked answered, with data or
\* with peers, or timed out. The crawl asks again or returns, and then get
\* resolves the answers collected (lines 177-179).
GetReplies ==
    /\ getc.pc = "wait"
    /\ LET sp == getc.sp
       IN \E A \in SUBSET sp.inflight :
          \E ans \in [A -> {None} \cup ForeignStrs] :
          \E found \in SUBSET (Peers \ A) :
              /\ (\A p \in A : ans[p] # None) => found = {}
              /\ router' = RouterAfter(router, sp.inflight, A) \cup found
              /\ LET m == SpiderMerge(sp, A, found,
                                      Responses(None, sp.target, A, ans))
                 IN IF SpiderStops(sp, found, m.responses)
                    THEN /\ getc' = [getc EXCEPT
                                        !.pc = "done", !.sp = m,
                                        !.out = GetResult(sp.target, m.responses)]
                         /\ postStop' = postStop
                    ELSE /\ getc' = [getc EXCEPT !.sp = SpiderAsk(m)]
                         /\ postStop' = Sent({"find_value"})
    /\ UNCHANGED <<transport, storage, refresh_loop, save_state_loop, orphans,
                   snapfile, calls, sweep, stopCalled, firedAfterStop, boot,
                   restored, refresh_orphans, saved>>

\* ------------------------------------------------------- Server.bootstrap
\* Node(id, ip, port); NoNode is Python's None.
Node(id, addr) == [id |-> id, addr |-> addr]
NoNode == [id |-> 0, addr |-> <<>>]

\* protocol.ping(addr, self.node.id): (True, the remote id) from a peer that
\* answers, (False, None) after the timeout.
PingResult(addr, answered) ==
    IF addr \in answered THEN <<TRUE, PeerAt(addr)>> ELSE <<FALSE, 0>>

\* A bootstrap_node that makes a node of every seed address.
bootstrap_node_any(addr, result) == Node(result[2], addr)

\* Server.bootstrap_node, lines 146-148.
bootstrap_node(addr, result) ==
    IF result[1] THEN Node(result[2], addr) ELSE NoNode

\* bootstrap, lines 139-141: the pings gathered in the order of addrs, and
\* the nodes kept among them.
Gathered(addrs, answered) ==
    [i \in 1..Len(addrs) |->
        bootstrap_node(addrs[i], PingResult(addrs[i], answered))]

\* A bootstrap that keeps everything the pings returned.
BootNodesAll(gathered) == gathered

BootNodes(gathered) == SelectSeq(gathered, LAMBDA n : n # NoNode)

NodeIds(nodes) == {nodes[i].id : i \in 1..Len(nodes)}

\* The address lists bootstrap is called with: seed addresses, each once.
SeedLists ==
    {a \in UNION {[1..n -> Addrs] : n \in 0..NPeers} :
        \A i \in 1..Len(a) : \A j \in 1..Len(a) : i # j => a[i] # a[j]}

\* Server.bootstrap is called (lines 129-140): line 139 makes one
\* bootstrap_node coroutine per address and line 140 hands them to gather and
\* waits; none of them has run yet. Without any address nothing is waited for.
Bootstrap(addrs) ==
    /\ transport = "open"
    /\ ~stopCalled
    /\ boot.pc = "idle"
    /\ IF addrs = <<>>
       THEN /\ boot' = [boot EXCEPT !.pc = "done",
                                    !.sp = SpiderInit("node", LocalId, {}, <<>>)]
            /\ postStop' = postStop
       ELSE /\ boot' = [boot EXCEPT !.pc = "gather", !.addrs = addrs]
            /\ postStop' = postStop
    /\ UNCHANGED <<transport, router, storage, refresh_loop, save_state_loop,
                   orphans, snapfile, calls, sweep, stopCalled, firedAfterStop,
                   getc, restored, refresh_orphans, saved>>

\* The tasks gather made of the bootstrap_node coroutines start (line 147):
\* each sends its ping and waits for the answer.
BootstrapNodes ==
    /\ boot.pc = "gather"
    /\ boot' = [boot EXCEPT !.pc = "ping", !.pinged = Range(boot.addrs)]
    /\ postStop' = Sent({"ping"})
    /\ UNCHANGED <<transport, router, storage, refresh_loop, save_state_loop,
                   orphans, snapfile, calls, sweep, stopCalled, firedAfterStop,
                   getc, restored, refresh_orphans, saved>>

\* The pings are gathered (lines 140-144): the node crawl toward the local
\* node's id starts from the nodes kept; with none it has nobody to ask.
BootPinged ==
    /\ boot.pc = "ping"
    /\ \E A \in SUBSET boot.pinged :
         LET nodes == BootNodes(Gathered(boot.addrs, A))
             spider == SpiderInit("node", LocalId, NodeIds(nodes), <<>>)
         IN /\ router' = router \cup {PeerAt(a) : a \in A}
            /\ IF SpiderPicks(spider) = {}
               THEN /\ boot' = [boot EXCEPT !.pc = "done", !.answered = A,
                                            !.nodes = nodes, !.sp = spider,
                                            !.out = SpiderResult(spider)]
                    /\ postStop' = postStop
               ELSE /\ boot' = [boot EXCEPT !.pc = "crawl", !.answered = A,
                                            !.nodes = nodes,
                                            !.sp = SpiderAsk(spider)]
                    /\ postStop' = Sent({"find_node"})
    /\ UNCHANGED <<transport, storage, refresh_loop, save_state_loop, orphans,
                   snapfile, calls, sweep, stopCalled, firedAfterStop, getc,
                   restored, refresh_orphans, saved>>

\* A round of bootstrap's node crawl ends; the crawl asks again or returns
\* the nodes it found, which bootstrap returns (line 144).
BootReplies ==
    /\ boot.pc = "crawl"
    /\ LET sp == boot.sp
       IN \E A \in SUBSET sp.inflight :
          \E found \in SUBSET (Peers \ A) :
              /\ A = {} => found = {}
              /\ router' = RouterAfter(router, sp.inflight, A) \cup found
              /\ LET m == SpiderMerge(sp, A, found, <<>>)
                 IN IF SpiderStops(sp, found, m.responses)
                    THEN /\ boot' = [boot EXCEPT !.pc = "done", !.sp = m,
                                                 !.out = SpiderResult(m)]
                         /\ postStop' = postStop
                    ELSE /\ boot' = [boot EXCEPT !.sp = SpiderAsk(m)]
                         /\ postStop' = Sent({"find_node"})
    /\ UNCHANGED <<transport, storage, refresh_loop, save_state_loop, orphans,
                   snapfile, calls, sweep, stopCalled, firedAfterStop, getc,
                   restored, refresh_orphans, saved>>

\* ------------------------------------------------------- Server.loadState
\* Server.loadState, lines 270-282: a server is made of what the file holds;
\* s.bootstrap(...) at line 281 makes a coroutine that nothing awaits or
\* schedules, so none of its code runs and no ping is sent.
LoadState ==
    /\ snapfile.written
    /\ ~restored.made
    /\ restored' = [made |-> TRUE, ksize |-> snapfile.ksize,
                    alpha |-> snapfile.alpha, id |-> snapfile.id,
                    neighbors |-> snapfile.neighbors,
                    bootstrap |-> IF Len(snapfile.neighbors) > 0
                                  THEN "never awaited" ELSE "none",
                    pinged |-> {}]
    /\ UNCHANGED <<transport, router, storage, refresh_loop, save_state_loop,
                   orphans, snapfile, calls, sweep, stopCalled, postStop,
                   firedAfterStop, getc, boot, saved, refresh_orphans>>

SetValues == Values \ {Foreign}

\* What a peer may ask this node to store: a single value, or the list a
\* key's writers have made of theirs.
PeerStrs == {SingleStr(Foreign), ListStr(<<Foreign, 1>>)}

\* The node serving one set call, until it is stopped, while peers come, go
\* and store.
Next ==
    \/ Listen
    \/ Stop
    \/ \E k \in Keys, v \in SetValues : SetCall(1, k, v)
    \/ GetFinish(1)
    \/ CrawlFinish(1)
    \/ StoreStart(1)
    \/ StoreFinish(1)
    \/ \E p \in Peers : RpcPing(p)
    \/ \E p \in Peers, d \in DKeys, s \in ForeignStrs : RpcStore(p, d, s)

Spec == Init /\ [][Next]_vars

\* The node serving several set calls, the only writers of its store.
NextCalls ==
    \/ Listen
    \/ \E t \in Calls, k \in Keys, v \in SetValues \ {0} : SetCall(t, k, v)
    \/ \E t \in Calls : GetFinish(t)
    \/ \E t \in Calls : CrawlFinish(t)
    \/ \E t \in Calls : StoreStart(t)
    \/ \E t \in Calls : StoreFinish(t)
    \/ \E p \in Peers : RpcPing(p)

SpecCalls == Init /\ [][NextCalls]_vars

\* The node's life from listen to stop: the refresh timer, the calls of
\* refresh_table from outside, and the sweeps started, which run beside one
\* another over a store that ages.
NextLife ==
    \/ Listen
    \/ Stop
    \/ RefreshTimerFire
    \/ RefreshTableCall
    \/ RefreshOrphanFire
    \/ \E s \in Sweeps, ids \in OneBucketIds : SweepStart(s, ids)
    \/ \E s \in Sweeps : SweepCrawlsStart(s)
    \/ \E s \in Sweeps, i \in 1..NPeers : SweepBucketReplies(s, i)
    \/ \E s \in Sweeps : SweepGathered(s)
    \/ \E s \in Sweeps : SweepCrawlFinish(s)
    \/ \E s \in Sweeps : SweepStoreStart(s)
    \/ \E s \in Sweeps : SweepStoreFinish(s)
    \/ \E p \in Peers : RpcPing(p)
    \/ \E d \in DKeys : AgeEntry(d)

SpecLife == Init /\ [][NextLife]_vars

\* The snapshots of the node: saving regularly, loading, and the routing
\* table that peers enter by a ping and leave by not answering a bucket crawl
\* of the sweep listen starts.
NextSave ==
    \/ Listen
    \/ Stop
    \/ \E s \in Sweeps, ids \in OneBucketIds : SweepStart(s, ids)
    \/ \E s \in Sweeps : SweepCrawlsStart(s)
    \/ \E s \in Sweeps, i \in 1..NPeers : SweepBucketReplies(s, i)
    \/ \E s \in Sweeps : SweepGathered(s)
    \/ SaveState
    \/ SaveStateRegularly
    \/ SaveTimerFire
    \/ SaveOrphanFire
    \/ LoadState
    \/ \E p \in Peers : RpcPing(p)

SpecSave == Init /\ [][NextSave]_vars

\* The sweep listen starts, over a store that peers fill and that ages.
NextSweep ==
    \/ Listen
    \/ \E s \in Sweeps, ids \in RefreshIds : SweepStart(s, ids)
    \/ \E s \in Sweeps : SweepCrawlsStart(s)
    \/ \E s \in Sweeps, i \in 1..NPeers : SweepBucketReplies(s, i)
    \/ \E s \in Sweeps : SweepGathered(s)
    \/ \E s \in Sweeps : SweepCrawlFinish(s)
    \/ \E s \in Sweeps : SweepStoreStart(s)
    \/ \E s \in Sweeps : SweepStoreFinish(s)
    \/ \E p \in Peers : RpcPing(p)
    \/ \E p \in Peers, d \in DKeys, s \in PeerStrs : RpcStore(p, d, s)
    \/ \E d \in DKeys : AgeEntry(d)

SpecSweep == Init /\ [][NextSweep]_vars

\* No call of the public API has been made yet.
Uncalled == getc.pc = "idle" /\ boot.pc = "idle" /\ calls[1].pc = "idle"

\* The node serving one call of its public API (bootstrap, get or set),
\* while peers come and answer or time out, until it is stopped.
NextApi ==
    \/ Listen
    \/ Stop
    \/ Uncalled /\ \E a \in SeedLists : Bootstrap(a)
    \/ BootstrapNodes
    \/ BootPinged
    \/ BootReplies
    \/ Uncalled /\ \E k \in Keys : Get(k)
    \/ GetReplies
    \/ Uncalled /\ \E k \in Keys, v \in SetValues : SetCall(1, k, v)
    \/ GetFinish(1)
    \/ CrawlFinish(1)
    \/ StoreStart(1)
    \/ StoreFinish(1)
    \/ \E p \in Peers : RpcPing(p)

SpecApi == Init /\ [][NextApi]_vars

\* Nothing has been started yet of what a run follows: no call of the public
\* API has been made, and the sweep listen starts has not begun.
Unstarted == Uncalled /\ sweep[1].pc \in {"idle", "spawned"}

\* The node running one thing that crawls, round by round: a call of
\* bootstrap, get or set, or the sweep listen starts, while peers come and
\* store, and the store ages.
NextCrawl ==
    \/ Listen
    \/ Unstarted /\ \E a \in SeedLists : Bootstrap(a)
    \/ BootstrapNodes
    \/ BootPinged
    \/ BootReplies
    \/ Unstarted /\ \E k \in Keys : Get(k)
    \/ GetReplies
    \/ Unstarted /\ \E k \in Keys, v \in SetValues : SetCall(1, k, v)
    \/ GetFinish(1)
    \/ CrawlFinish(1)
    \/ StoreStart(1)
    \/ StoreFinish(1)
    \/ Unstarted /\ \E ids \in RefreshIds : SweepStart(1, ids)
    \/ SweepCrawlsStart(1)
    \/ \E i \in 1..NPeers : SweepBucketReplies(1, i)
    \/ SweepGathered(1)
    \/ SweepCrawlFinish(1)
    \/ SweepStoreStart(1)
    \/ SweepStoreFinish(1)
    \/ \E p \in Peers : RpcPing(p)
    \/ \E p \in Peers, d \in DKeys, s \in PeerStrs : RpcStore(p, d, s)
    \/ \E d \in DKeys : AgeEntry(d)

SpecCrawl == Init /\ [][NextCrawl]_vars

\* The same, with every batch of RPCs awaited coming to its end: each RPC is
\* answered or times out, and the event loop runs the tasks gather made and
\* resumes the coroutine that awaits the batch.
FairCrawl ==
    /\ SpecCrawl
    /\ WF_vars(BootstrapNodes)
    /\ WF_vars(BootPinged)
    /\ WF_vars(BootReplies)
    /\ WF_vars(GetReplies)
    /\ WF_vars(GetFinish(1))
    /\ WF_vars(CrawlFinish(1))
    /\ WF_vars(StoreStart(1))
    /\ WF_vars(StoreFinish(1))
    /\ WF_vars(SweepCrawlsStart(1))
    /\ \A i \in 1..NPeers : WF_vars(SweepBucketReplies(1, i))
    /\ WF_vars(SweepCrawlFinish(1))
    /\ WF_vars(SweepStoreStart(1))
    /\ WF_vars(SweepStoreFinish(1))


\* ================================================================= claims
IsSingle(resp) == resp # None /\ ~resp.list
Returned(c) == c.pc = "done" /\ c.out \in {"true", "false"}
Refused(c) == c.pc = "done" /\ c.out = "unauth" /\ ~c.wrote /\ c.nodes = <<>>

\* C1. Authorization gating: a set call with a value whose own signature is
\* valid, to which the ledger answered "absent" for
\* hash(digest(key) || signature), raises UnauthorizedOperationException, has
\* not written the local store and has issued no callStore.
C1_AuthorizationGating ==
    \A t \in Calls :
        (/\ calls[t].pc # "idle"
         /\ is_valid(calls[t].val)
         /\ (calls[t].seen1 = "absent" \/ calls[t].seen2 = "absent"))
        => Refused(calls[t])

C1_Witness ==
    \E t \in Calls :
        /\ is_valid(calls[t].val)
        /\ calls[t].seen1 = "absent"
        /\ calls[t].out = "unauth"

\* C2. Multi-writer merge: after two sequential set calls that both returned,
\* for the same key, with two different values v1 then v2, on a key whose
\* stored representation was a ControlledValue, the local store entry holds
\* v1 and v2 in append order, whatever the routing table holds.
C2_MultiWriterMerge ==
    \A t \in Calls : \A u \in Calls :
        (/\ Returned(calls[t]) /\ Returned(calls[u])
         /\ t \in calls[u].after
         /\ calls[t].key = calls[u].key
         /\ calls[t].val # calls[u].val
         /\ calls[t].preList)
        => LET e == storage[Digest(calls[t].key)].data
           IN /\ e.list
              /\ \E i \in 1..Len(e.vals) : \E j \in 1..Len(e.vals) :
                     i < j /\ e.vals[i] = calls[t].val /\ e.vals[j] = calls[u].val

\* C3. Republish preserves the key: a callStore batch of the republish sweep
\* for the store entry (dkey, value) carries dkey, and goes to the peers found
\* by the crawl toward dkey.
C3_RepublishKeepsKey ==
    \A s \in Sweeps : sweep[s].pc = "store" => sweep[s].target = sweep[s].cur[1]

\* C4. After stop() the node sends no RPC, not even from a sweep, a crawl, a
\* get or a set that was waiting at an await when stop() was called.
C4_NoNetworkAfterStop == stopCalled => postStop = {}

\* C5. Timer cancellation: once stop() has been called no timer of the server
\* is pending and neither the refresh_table nor the saveStateRegularly callback
\* runs again.
C5_TimersCancelled ==
    stopCalled =>
        /\ ~firedAfterStop
        /\ refresh_loop # "pending"
        /\ save_state_loop # "pending"
        /\ orphans = 0
        /\ refresh_orphans = 0

\* C6. Double authorization check: a set call has written the local store
\* only if the ledger answered "present" at both checks; with "present" at
\* the first and "absent" at the second the call raises, has not written and
\* has issued no callStore.
C6_DoubleCheck ==
    \A t \in Calls :
        /\ calls[t].wrote =>
               (calls[t].seen1 = "present" /\ calls[t].seen2 = "present")
        /\ (calls[t].seen1 = "present" /\ calls[t].seen2 = "absent") =>
               Refused(calls[t])

C6_Witness ==
    \E t \in Calls :
        /\ calls[t].seen1 = "present"
        /\ calls[t].seen2 = "absent"
        /\ calls[t].out = "unauth"

\* C7. Immediate rejection: a set call with a value whose is_valid() is false
\* raises before anything else: no lookup RPC, no ledger query, no write, no
\* callStore.
C7_InvalidRejectedFirst ==
    \A t \in Calls :
        (calls[t].pc # "idle" /\ ~is_valid(calls[t].val)) =>
            /\ Refused(calls[t])
            /\ ~calls[t].lookups
            /\ calls[t].oq = 0

C7_Witness ==
    \E t \in Calls :
        /\ calls[t].pc = "done"
        /\ ~is_valid(calls[t].val)
        /\ calls[t].out = "unauth"

\* C8. Single-writer conflict: in the step where an authorized set call meets
\* a resolved single Value, a failing validate_secure_value ends the call with
\* the authorization error, the local store untouched and no callStore; a
\* passing one (the ledger still authorizing) makes the store entry exactly
\* the new value.
C8_SingleWriterConflict ==
    [][\A t \in Calls :
         (/\ calls[t].seen1 = "na"
          /\ calls'[t].seen1 = "present"
          /\ IsSingle(calls'[t].resp))
         => IF ~validate_secure_value(
                   Digest(calls'[t].key), calls'[t].val,
                   create_from_string(Digest(calls'[t].key), calls'[t].resp))
            THEN Refused(calls'[t]) /\ storage' = storage
            ELSE calls'[t].seen2 = "present" =>
                     /\ calls'[t].wrote
                     /\ storage'[Digest(calls'[t].key)].data = SingleStr(calls'[t].val)
      ]_vars

C8_Witness ==
    \E t \in Calls :
        /\ calls[t].seen1 = "present"
        /\ IsSingle(calls[t].resp)
        /\ Owner(calls[t].val) # Owner(calls[t].resp.vals[1])
        /\ calls[t].out = "unauth"

\* C9. Return value of set: a set call that returned, returned true exactly
\* when one of the callStore requests it sent to the nodes of the crawl
\* toward digest(key) succeeded; with no node to send to it returned false.
C9_ReturnValue ==
    \A t \in Calls :
        Returned(calls[t]) =>
            /\ calls[t].out = "true" <=> calls[t].acked
            /\ calls[t].nodes = <<>> => calls[t].out = "false"
            /\ calls[t].target = Digest(calls[t].key)

C9_Witness ==
    \E t \in Calls :
        /\ calls[t].out = "true"
        /\ calls[t].acked
        /\ Len(calls[t].nodes) > 1

\* C10. No rollback: no step a set call takes after its local write changes
\* the local store, so a call that returns false leaves what it wrote.
C10_NoRollback ==
    [][\A t \in Calls :
         (calls[t].wrote /\ calls'[t] # calls[t]) => storage' = storage]_vars

C10_Witness ==
    \E t \in Calls :
        /\ calls[t].wrote
        /\ calls[t].out = "false"
        /\ calls[t].nodes # <<>>
        /\ storage[Digest(calls[t].key)].data =
               ToStr(Merge(Digest(calls[t].key), calls[t].val, calls[t].resp))

\* C11. No known peers: a get called while the routing table holds no peer
\* returns, in that call, a NodeMessage for digest(key) with an absent payload;
\* a set of a valid value called then, to which the ledger never answers
\* "absent", returns false; neither raises, neither sends an RPC.
C11_NoKnownPeers ==
    [][/\ (getc.pc = "idle" /\ getc'.pc # "idle" /\ router = {}) =>
              /\ getc'.pc = "done"
              /\ getc'.out = of_params(Digest(getc'.key), None)
              /\ ~getc'.sent
              /\ getc'.sp = NoSpider
       /\ \A t \in Calls :
              (/\ calls[t].pc = "idle" /\ calls'[t].pc # "idle"
               /\ router = {}
               /\ is_valid(calls'[t].val)
               /\ calls'[t].seen1 # "absent"
               /\ calls'[t].seen2 # "absent") =>
                  /\ calls'[t].pc = "done"
                  /\ calls'[t].out = "false"
                  /\ ~calls'[t].lookups
                  /\ calls'[t].nodes = <<>>
      ]_vars

C11_Witness ==
    /\ calls[1].pc = "done"
    /\ is_valid(calls[1].val)
    /\ calls[1].seen2 = "present"
    /\ calls[1].out = "false"
    /\ ~calls[1].lookups

\* C12. Transport failures are never fatal: whichever peers time out, a
\* bootstrap that is done returned a list of peers, a get that is done
\* returned the envelope of digest(key) holding one of the answers collected
\* or nothing, and a set that is done, of a valid value the write policy
\* admitted (the ledger never answered "absent", no single-writer conflict),
\* returned a boolean: none of them raised.
C12_TransportFailuresNotFatal ==
    /\ boot.pc = "done" =>
           /\ Range(boot.out) \subseteq Peers
           /\ \A i \in 1..Len(boot.out) : \A j \in 1..Len(boot.out) :
                  i # j => boot.out[i] # boot.out[j]
    /\ getc.pc = "done" =>
           /\ getc.out.key = Digest(getc.key)
           /\ getc.out.data = None \/ getc.out.data \in Range(getc.sp.responses)
    /\ \A t \in Calls :
           (/\ calls[t].pc = "done"
            /\ is_valid(calls[t].val)
            /\ calls[t].seen1 # "absent"
            /\ calls[t].seen2 # "absent"
            /\ ~MergeRaises(Digest(calls[t].key), calls[t].val, calls[t].resp))
           => calls[t].out \in {"true", "false"}

C12_Witness ==
    /\ boot.pc = "done"
    /\ Len(boot.addrs) = NPeers
    /\ boot.answered = {}
    /\ boot.out = <<>>

\* The place of the first occurrence of x in s.
FirstIndex(s, x) == CHOOSE i \in 1..Len(s) : s[i] = x /\ \A j \in 1..(i - 1) : s[j] # x

\* C13. Majority resolution in get: the payload a get returns after its crawl
\* is the one with the highest occurrence count among the data-bearing
\* responses collected, the first seen among those that tie, so one peer that
\* disagrees does not override a plurality; without any response carrying
\* data the payload is absent.
C13_MajorityResolution ==
    (getc.pc = "done" /\ getc.sent) =>
        LET rs == getc.sp.responses
            d == getc.out.data
        IN IF rs = <<>> THEN d = None
           ELSE /\ d \in Range(rs)
                /\ \A x \in Range(rs) :
                       /\ CountOf(rs, x) <= CountOf(rs, d)
                       /\ CountOf(rs, x) = CountOf(rs, d) =>
                              FirstIndex(rs, d) <= FirstIndex(rs, x)

C13_Witness ==
    /\ getc.pc = "done"
    /\ Len(getc.sp.responses) = 3
    /\ getc.out.data # getc.sp.responses[1]
    /\ CountOf(getc.sp.responses, getc.out.data) = 2

\* C14. Snapshot round trip: the server loadState makes of the file saveState
\* wrote has the ksize, the alpha and the node id saved, and pings each
\* neighbor address saved.
C14_SnapshotRoundTrip ==
    restored.made =>
        /\ restored.ksize = KSize
        /\ restored.alpha = Alpha
        /\ restored.id = LocalId
        /\ restored.pinged = Range(restored.neighbors)

\* C15. saveState without neighbors is a no-op: a step taken while the
\* routing table yields no bootstrappable neighbor, a saveState among them,
\* leaves the snapshot file as it is, missing or with its previous content.
C15_SaveWithoutNeighbors ==
    [][Len(bootstrappableNeighbors(router)) = 0 => snapfile' = snapfile]_vars

C15_Witness ==
    /\ saved = <<>>
    /\ snapfile.written
    /\ snapfile.neighbors # <<>>

\* C16. Bootstrap keeps exactly the responders: bootstrap pings every seed
\* address, and when the pings are gathered the node crawl toward the local
\* node's id is started with exactly the seeds that answered, in the order of
\* addrs, each as the node of the id in its reply and of the seed's address.
C16_BootstrapKeepsResponders ==
    [][(boot.pc = "ping" /\ boot'.pc # "ping") =>
          LET seeds == [i \in 1..Len(boot.addrs) |->
                           Node(PeerAt(boot.addrs[i]), boot.addrs[i])]
              expected == SelectSeq(seeds, LAMBDA n : n.addr \in boot'.answered)
          IN /\ boot.pinged = Range(boot.addrs)
             /\ boot'.nodes = expected
             /\ boot'.sp.kind = "node"
             /\ boot'.sp.target = LocalId
             /\ boot'.sp.seen = NodeIds(expected)
             /\ boot'.sp.known = NodeIds(expected)
      ]_vars

C16_Witness ==
    /\ boot.pc \in {"crawl", "done"}
    /\ Len(boot.addrs) = 2
    /\ Cardinality(boot.answered) = 1
    /\ Len(boot.nodes) = 1
    /\ boot.nodes[1].addr \in boot.answered

\* A peer first seen in this step is closer to the target than every peer of
\* the crawl seen before.
FoundCloser(sp, spNext) ==
    \E x \in spNext.seen \ sp.seen :
        \A y \in sp.seen : Xor(x, sp.target) < Xor(y, sp.target)

\* C17. Crawl termination: with every RPC answered or timed out, every crawl
\* the server starts ends: the node crawl of bootstrap, the value crawl of
\* get, the value crawl and the node crawl of set, and the bucket crawls and
\* the republishing crawls of the periodic sweep. A crawl goes on to another
\* round only when the round before named a peer closer than the best known
\* before it (and, for a value crawl, left the answers carrying data short of
\* VALUES_TO_WAIT), so it stops at the first round that names none; and every
\* bootstrap, get and set that was called returns, and the sweep comes to
\* its end.
C17_CrawlTermination ==
    /\ (boot.pc \in {"gather", "ping", "crawl"}) ~> (boot.pc = "done")
    /\ (getc.pc = "wait") ~> (getc.pc = "done")
    /\ (calls[1].pc \in {"getwait", "crawlwait", "storecall", "storewait"}) ~> (calls[1].pc = "done")
    /\ (sweep[1].pc = "gather") ~>
           /\ sweep[1].cos = <<>>
           /\ \A i \in 1..Len(sweep[1].ds) : sweep[1].ds[i].inflight = {}
    /\ (sweep[1].pc \in {"crawl", "storecall", "store"}) ~> sweep[1].swept
    /\ [][/\ (boot.pc = "crawl" /\ boot' # boot) =>
                 (boot'.pc = "done" <=> ~FoundCloser(boot.sp, boot'.sp))
          /\ (getc.pc = "wait" /\ getc' # getc) =>
                 (getc'.pc = "done" <=>
                      \/ ~FoundCloser(getc.sp, getc'.sp)
                      \/ Len(getc'.sp.responses) >= ValuesToWait)
          /\ (calls[1].pc = "getwait" /\ calls'[1].pc = "getwait"
                  /\ calls'[1] # calls[1]) =>
                 /\ FoundCloser(calls[1].sp, calls'[1].sp)
                 /\ Len(calls'[1].sp.responses) < ValuesToWait
          /\ (calls[1].pc = "crawlwait" /\ calls'[1].pc = "crawlwait"
                  /\ calls'[1] # calls[1]) =>
                 FoundCloser(calls[1].sp, calls'[1].sp)
          /\ (sweep[1].pc = "crawl" /\ sweep'[1].pc = "crawl"
                  /\ sweep'[1].made = sweep[1].made /\ sweep'[1] # sweep[1]) =>
                 FoundCloser(sweep[1].sp, sweep'[1].sp)
          /\ \A i \in 1..NPeers :
                 (/\ sweep[1].pc = "gather" /\ sweep'[1].pc = "gather"
                  /\ i \in 1..Len(sweep[1].ds)
                  /\ sweep[1].ds[i] # NoSpider
                  /\ sweep'[1].ds[i] # sweep[1].ds[i]
                  /\ sweep'[1].ds[i] # NoSpider) =>
                     FoundCloser(sweep[1].ds[i], sweep'[1].ds[i])
         ]_vars

\* set has returned True: its value crawl and its node crawl have both run
\* and ended, and a peer the node crawl returned has stored the value.
C17_Witness ==
    /\ calls[1].pc = "done"
    /\ calls[1].lookups
    /\ calls[1].nodes # <<>>
    /\ calls[1].out = "true"

\* C18. Concurrent sets lose no write: when two set calls for the same key,
\* of two different valid authorized values, each started before the other
\* was done and each resolving the key to a ControlledValue, have both
\* returned, the local store entry holds both values.
C18_ConcurrentSetsLoseNoWrite ==
    \A t \in Calls : \A u \in Calls :
        (/\ t # u
         /\ Returned(calls[t]) /\ Returned(calls[u])
         /\ t \notin calls[u].after /\ u \notin calls[t].after
         /\ calls[t].key = calls[u].key
         /\ calls[t].val # calls[u].val
         /\ calls[t].preList /\ calls[u].preList
         /\ calls[t].resp.list /\ calls[u].resp.list)
        => LET e == storage[Digest(calls[t].key)].data
           IN /\ e.list
              /\ calls[t].val \in Range(e.vals)
              /\ calls[u].val \in Range(e.vals)

\* The calls of _call_remote_persist a sweep over the store st owes, key by
\* key: one per element of an old list, one for an old single value.
RECURSIVE OwedCalls(_, _)
OwedCalls(st, D) ==
    IF D = {} THEN <<>>
    ELSE LET d == CHOOSE x \in D : \A y \in D : x <= y
             e == st[d]
             n == Len(e.data.vals)
         IN (IF ~e.old \/ e.data = None THEN <<>>
             ELSE IF e.data.list
                  THEN [i \in 1..n |-> <<d, [list |-> FALSE, vals |-> <<e.data.vals[i]>>]>>]
                  ELSE << <<d, e.data>> >>)
            \o OwedCalls(st, D \ {d})

\* C19. Republish expansion: the calls of _call_remote_persist a sweep has
\* made are the first of those it owes for the store as it iterated it, all
\* of them once it is through: n calls for an old list of n values, one per
\* element in list order carrying that element alone, one call carrying the
\* stored string for an old single value, none for a younger entry; and no
\* step of the sweep changes the local store.
C19_RepublishExpansion ==
    /\ [](\A s \in Sweeps :
             LET owed == OwedCalls(sweep[s].snap, DKeys)
             IN /\ Len(sweep[s].made) <= Len(owed)
                /\ sweep[s].made = SubSeq(owed, 1, Len(sweep[s].made))
                /\ sweep[s].swept => sweep[s].made = owed)
    /\ [][sweep' # sweep => storage' = storage]_vars

C19_Witness ==
    \E s \in Sweeps :
        /\ sweep[s].swept
        /\ Len(sweep[s].made) = 2
        /\ sweep[s].made[1] # sweep[s].made[2]
        /\ sweep[s].made[1][2] = SingleStr(Foreign)

\* C20. The local copy votes first: in a get that found a known peer and a
\* local store entry for the key, the local value is the first element of
\* the responses resolved, from the first round on, and the get returns it
\* whenever no value occurs more often than it among the responses.
C20_LocalCopyFirst ==
    (getc.sent /\ getc.local # None) =>
        LET rs == getc.sp.responses
        IN /\ rs # <<>>
           /\ rs[1] = getc.local
           /\ (/\ getc.pc = "done"
               /\ \A x \in Range(rs) : CountOf(rs, x) <= CountOf(rs, getc.local))
              => getc.out.data = getc.local

C20_Witness ==
    /\ getc.pc = "done"
    /\ getc.local # None
    /\ Len(getc.sp.responses) = 2
    /\ getc.sp.responses[2] # getc.local
    /\ getc.out.data = getc.local

====
